---- MODULE Spec2Model ----
(***************************************************************************)
(* The simulation core of the side-scrolling game, class FlappyBird of     *)
(* src/unnamed/part_002 (the clean variant).                               *)
(*                                                                         *)
(* Lengths and velocities are fixed-point numbers in tenths of a pixel     *)
(* (0.6 is 6, 300 is 3000, 2.5 is 25): every constant of the code is a     *)
(* multiple of 0.1.  A value Math.random() returns is k / RandDen for an   *)
(* integer k; products with it are floored to a tenth.                     *)
(*                                                                         *)
(* One action is one handler run to completion (the page is single-        *)
(* threaded): a click or key handler, or one animation frame (gameLoop).   *)
(* Rendering, sound, clouds, the ground scroll and the achievements are    *)
(* not modelled; they write no field the simulation reads.                 *)
(*                                                                         *)
(* The variant src/script.js of the same class is modelled after the clean *)
(* one, by the methods in which it differs (prefix script_).  It has two   *)
(* more variables, which the clean variant never writes.                   *)
(***************************************************************************)
EXTENDS Integers, Sequences, FiniteSets, TLC

VARIABLES
    canvas,          \* [width, height] of the canvas element, read from the DOM
    groundY,         \* this.groundY
    stored,          \* localStorage item 'flappyBirdBestScore'
    gameState,       \* this.gameState
    isPaused,        \* this.isPaused
    score,           \* this.score
    bestScore,       \* this.bestScore
    difficulty,      \* this.difficulty
    pipeSpeed,       \* this.pipeSpeed
    pipeGap,         \* this.pipeGap
    bird,            \* this.bird: [y, velocity, rotation] (x and size are fixed)
    pipes,           \* this.pipes: sequence of [x, y, scored, id]
    powerUps,        \* this.powerUps: sequence of [x, y, type, duration, collected]
    activePowerUps,  \* this.activePowerUps
    particles,       \* this.particles: the remaining life of each particle
    globalScore,     \* src/script.js: the global variable globalScore, in tenths
    isAlive,         \* src/script.js: this.bird.isAlive
    nextId,          \* history: identity token of the next obstacle of this run
    spawnDraws,      \* history: power-up spawn draws made so far, up to SpawnWindow
    runs,            \* history: runs started so far
    raf,             \* the gameLoop callbacks held by requestAnimationFrame
    ev               \* history: what the last handler did (its notifications)

vars == << canvas, groundY, stored, gameState, isPaused, score, bestScore,
           difficulty, pipeSpeed, pipeGap, bird, pipes, powerUps,
           activePowerUps, particles, globalScore, isAlive, nextId, spawnDraws,
           runs, raf, ev >>

----------------------------------------------------------------------------
(* Program constants, in tenths of a pixel where they are lengths. *)

BirdX == 800
StartY == 3000
BirdWidth == 340
BirdHeight == 240
Gravity == 6
JumpPower == -120
PipeWidth == 520
InitPipeGap == 1400
InitPipeSpeed == 20
GroundOffset == 1120
PipeSpacing == 2000
PipeMargin == 1000
PowerUpSize == 200
PowerUpAhead == 1000
PowerUpDuration == 300
ParticleLife == 30
ParticleBatch == 10
PowerUpTypes == << "shield", "slowTime", "doublePoints" >>

----------------------------------------------------------------------------
(* Bounds of the model and the inputs it draws. *)

\* Math.random() returns k / RandDen.
RandDen == 1000
\* The draws the model takes: 0 (below the spawn chance 0.002, the first type, a
\* gap at the top of the band), 0.5 (the second type, a gap in the middle) and
\* 0.806 (the third type, the gap the actor's orbit from the start height fits).
RandomDraws == {0, 500, 806}
FitDraws == {806}
\* Only the first SpawnWindow spawn draws of an instance may fall below 0.002.
SpawnWindow == 1
\* Frames stop being simulated once the score of the first run has reached
\* MaxScore, and the score of a later run MaxLaterScore.
MaxScore == 12
MaxLaterScore == 2
\* The player starts at most MaxRuns runs.
MaxRuns == 2
\* Only the first PlaceWindow obstacles of a run may get another place than the
\* one the actor's orbit fits.
PlaceWindow == 1
\* The player presses the flap key while playing only at these velocities: at
\* 11.4 a flap brings the actor back to the height it fell from.
FlapVelocities == {114}
\* The canvas sizes the page may give.
CanvasSizes == { [width |-> 4000, height |-> 7000] }
\* What localStorage may hold for the best score when the page loads.
StoredValues == { [kind |-> "null", n |-> 0],
                  [kind |-> "nan", n |-> 0],
                  [kind |-> "numstr", n |-> 3] }

Min(a, b) == IF a < b THEN a ELSE b
Max(a, b) == IF a > b THEN a ELSE b

----------------------------------------------------------------------------
(* JavaScript values of the best score: a Number, or what localStorage      *)
(* returns, which is null or a string.  A string is kept by what ToNumber   *)
(* and ToBoolean make of it: "numstr" is a numeric string of value n, "nan" *)
(* a non-empty string that is no number, "empty" the empty string.          *)

Num(n) == [kind |-> "num", n |-> n]
NumStr(n) == [kind |-> "numstr", n |-> n]

\* x || 0: null and the empty string are falsy, every other string is truthy.
OrZero(x) == IF x.kind \in {"null", "empty"} \/ (x.kind = "num" /\ x.n = 0)
             THEN Num(0)
             ELSE x

\* s > x for a Number s: x is converted by ToNumber and a NaN compares false.
GreaterThan(s, x) ==
    CASE x.kind \in {"num", "numstr"} -> s > x.n
      [] x.kind \in {"null", "empty"} -> s > 0
      [] OTHER -> FALSE

----------------------------------------------------------------------------
(* The object.  This is `this` as a record, so that the methods can be      *)
(* composed in the order update() calls them.                               *)

This == [ canvas |-> canvas, groundY |-> groundY, stored |-> stored,
          gameState |-> gameState, isPaused |-> isPaused, score |-> score,
          bestScore |-> bestScore, difficulty |-> difficulty,
          pipeSpeed |-> pipeSpeed, pipeGap |-> pipeGap, bird |-> bird,
          pipes |-> pipes, powerUps |-> powerUps,
          activePowerUps |-> activePowerUps, particles |-> particles,
          globalScore |-> globalScore, isAlive |-> isAlive,
          nextId |-> nextId, spawnDraws |-> spawnDraws, runs |-> runs,
          raf |-> raf, ev |-> ev ]

\* The notifications of a handler that has done nothing yet.
NoEvent(op) == [ op |-> op, flapped |-> FALSE, trail |-> 0, started |-> FALSE,
                 points |-> 0, scoredIds |-> {}, removedIds |-> {},
                 removedUnscored |-> {},
                 spawnedPipe |-> FALSE, collected |-> {}, gameOvers |-> 0,
                 groundHit |-> FALSE, pipeHits |-> 0, saved |-> FALSE ]

Begin(op) == [This EXCEPT !.ev = NoEvent(op)]

\* requestAnimationFrame(() => this.gameLoop()): one more callback is
\* scheduled for the next animation frame.
requestAnimationFrame(g) == [g EXCEPT !.raf.scheduled = @ + 1]

\* The browser takes the next gameLoop callback.  When the callbacks of the
\* current animation frame have all run, the next animation frame begins and
\* runs every callback scheduled so far; calls counts the callbacks the
\* current animation frame has run.
AnimationFrameCallback(g) ==
    IF g.raf.running = 0
    THEN [g EXCEPT !.raf = [scheduled |-> 0, running |-> @.scheduled - 1,
                            calls |-> 1]]
    ELSE [g EXCEPT !.raf.running = @ - 1, !.raf.calls = @ + 1]

\* The object as a gameLoop callback finds it.
BeginFrame == AnimationFrameCallback(Begin("frame"))

Commit(g) ==
    /\ canvas' = g.canvas
    /\ groundY' = g.groundY
    /\ stored' = g.stored
    /\ gameState' = g.gameState
    /\ isPaused' = g.isPaused
    /\ score' = g.score
    /\ bestScore' = g.bestScore
    /\ difficulty' = g.difficulty
    /\ pipeSpeed' = g.pipeSpeed
    /\ pipeGap' = g.pipeGap
    /\ bird' = g.bird
    /\ pipes' = g.pipes
    /\ powerUps' = g.powerUps
    /\ activePowerUps' = g.activePowerUps
    /\ particles' = g.particles
    /\ globalScore' = g.globalScore
    /\ isAlive' = g.isAlive
    /\ nextId' = g.nextId
    /\ spawnDraws' = g.spawnDraws
    /\ runs' = g.runs
    /\ raf' = g.raf
    /\ ev' = g.ev

\* Array.prototype.splice(index, 1), with the model's indices from 1.
Splice(s, k) == SubSeq(s, 1, k - 1) \o SubSeq(s, k + 1, Len(s))

----------------------------------------------------------------------------
(* The methods. *)

\* gameOver() without the comparison with the best score.
gameOverAlwaysSaves(g) ==
    [g EXCEPT !.gameState = "gameOver",
              !.bestScore = Num(g.score),
              !.stored = NumStr(g.score),
              !.ev.saved = TRUE,
              !.ev.gameOvers = @ + 1]

\* gameOver() without the update of the best score.
gameOverKeepingBest(g) ==
    [g EXCEPT !.gameState = "gameOver",
              !.ev.gameOvers = @ + 1]

gameOver(g) ==
    LET better == GreaterThan(g.score, g.bestScore)
    IN  [g EXCEPT !.gameState = "gameOver",
                  !.bestScore = IF better THEN Num(g.score) ELSE @,
                  !.stored = IF better THEN NumStr(g.score) ELSE @,
                  !.ev.saved = @ \/ better,
                  !.ev.gameOvers = @ + 1]

startGame(g) ==
    [g EXCEPT !.gameState = "playing",
              !.score = 0,
              !.bird.y = StartY,
              !.bird.velocity = 0,
              !.pipes = << >>,
              !.nextId = 0,
              !.runs = @ + 1,
              !.ev.started = TRUE]

restartGame(g) == startGame(g)

createParticles(g) ==
    [g EXCEPT !.particles = @ \o [i \in 1..ParticleBatch |-> ParticleLife]]

\* flap() adding the impulse to the velocity.
flapAddingImpulse(g) ==
    createParticles([g EXCEPT !.bird.velocity = @ + JumpPower,
                              !.ev.flapped = TRUE,
                              !.ev.trail = @ + 1])

\* The trail entry flap() pushes is read by render() only; the model keeps the
\* push as a notification.
flap(g) ==
    createParticles([g EXCEPT !.bird.velocity = JumpPower,
                              !.ev.flapped = TRUE,
                              !.ev.trail = @ + 1])

\* togglePause() whose second branch takes every state but 'playing'.
togglePauseFromAnyState(g) ==
    IF g.gameState = "playing"
    THEN [g EXCEPT !.gameState = "paused", !.isPaused = TRUE]
    ELSE [g EXCEPT !.gameState = "playing", !.isPaused = FALSE]

togglePause(g) ==
    IF g.gameState = "playing"
    THEN [g EXCEPT !.gameState = "paused", !.isPaused = TRUE]
    ELSE IF g.gameState = "paused"
         THEN [g EXCEPT !.gameState = "playing", !.isPaused = FALSE]
         ELSE g

\* updateDifficulty() without Math.min and Math.max.
updateDifficultyUnclamped(g) ==
    LET newDifficulty == (g.score \div 10) + 1
    IN  IF newDifficulty > g.difficulty
        THEN [g EXCEPT !.difficulty = newDifficulty,
                       !.pipeSpeed = 20 + newDifficulty * 5,
                       !.pipeGap = 1400 - newDifficulty * 50]
        ELSE g

\* updateDifficulty() with the level following the score in both directions.
updateDifficultyFollowingScore(g) ==
    LET newDifficulty == (g.score \div 10) + 1
    IN  IF newDifficulty # g.difficulty
        THEN [g EXCEPT !.difficulty = newDifficulty,
                       !.pipeSpeed = Min(20 + newDifficulty * 5, 50),
                       !.pipeGap = Max(1400 - newDifficulty * 50, 1000)]
        ELSE g

\* updateDifficulty() applying its formulas also when the level stays the same.
updateDifficultyAtSameLevel(g) ==
    LET newDifficulty == (g.score \div 10) + 1
    IN  IF newDifficulty >= g.difficulty
        THEN [g EXCEPT !.difficulty = newDifficulty,
                       !.pipeSpeed = Min(20 + newDifficulty * 5, 50),
                       !.pipeGap = Max(1400 - newDifficulty * 50, 1000)]
        ELSE g

updateDifficulty(g) ==
    LET newDifficulty == (g.score \div 10) + 1
    IN  IF newDifficulty > g.difficulty
        THEN [g EXCEPT !.difficulty = newDifficulty,
                       !.pipeSpeed = Min(20 + newDifficulty * 5, 50),
                       !.pipeGap = Max(1400 - newDifficulty * 50, 1000)]
        ELSE g

\* The ground test with the actor's height left out.
GroundCollisionOfTop(g) == g.bird.y > g.groundY

\* The ground test of updateBird.
GroundCollision(g) == g.bird.y + BirdHeight > g.groundY

\* updateBird() without gravity.
updateBirdWithoutGravity(g) ==
    IF g.gameState # "playing" THEN g
    ELSE
    LET v == g.bird.velocity
        y == g.bird.y + v
        g1 == [g EXCEPT !.bird = [y |-> y, velocity |-> v,
                                  rotation |-> Min(Max(v * 3, -300), 900)]]
        hit == GroundCollision(g1)
        g2 == IF hit THEN gameOver([g1 EXCEPT !.ev.groundHit = TRUE]) ELSE g1
    IN  IF g2.bird.y < 0
        THEN [g2 EXCEPT !.bird.y = 0, !.bird.velocity = 0]
        ELSE g2

\* updateBird() without the clamp at the ceiling.
updateBirdWithoutCeiling(g) ==
    IF g.gameState # "playing" THEN g
    ELSE
    LET v == g.bird.velocity + Gravity
        y == g.bird.y + v
        g1 == [g EXCEPT !.bird = [y |-> y, velocity |-> v,
                                  rotation |-> Min(Max(v * 3, -300), 900)]]
    IN  IF GroundCollision(g1)
        THEN gameOver([g1 EXCEPT !.ev.groundHit = TRUE])
        ELSE g1

updateBird(g) ==
    IF g.gameState # "playing" THEN g
    ELSE
    LET v == g.bird.velocity + Gravity
        y == g.bird.y + v
        g1 == [g EXCEPT !.bird = [y |-> y, velocity |-> v,
                                  rotation |-> Min(Max(v * 3, -300), 900)]]
        hit == GroundCollision(g1)
        g2 == IF hit THEN gameOver([g1 EXCEPT !.ev.groundHit = TRUE]) ELSE g1
    IN  IF g2.bird.y < 0
        THEN [g2 EXCEPT !.bird.y = 0, !.bird.velocity = 0]
        ELSE g2

\* checkPipeCollision() without the test of the lower pipe.
checkPipeCollisionAbove(g, pipe) ==
    /\ BirdX < pipe.x + PipeWidth
    /\ BirdX + BirdWidth > pipe.x
    /\ g.bird.y < pipe.y

checkPipeCollision(g, pipe) ==
    /\ BirdX < pipe.x + PipeWidth
    /\ BirdX + BirdWidth > pipe.x
    /\ \/ g.bird.y < pipe.y
       \/ g.bird.y + BirdHeight > pipe.y + g.pipeGap

\* The test without the scored flag.
PipePassedIgnoringFlag(pipe) == pipe.x + PipeWidth < BirdX

\* The test with the actor's x negated.
PipePassedLeftOfScreen(pipe) == ~pipe.scored /\ pipe.x + PipeWidth < -BirdX

\* The test of updatePipes for an obstacle that is passed and not scored.
PipePassed(pipe) == ~pipe.scored /\ pipe.x + PipeWidth < BirdX

\* The points without the double-points effect.
PointsAlwaysOne(g) == 1

\* The points of one obstacle.
PointsFor(g) == IF "doublePoints" \in g.activePowerUps THEN 2 ELSE 1

\* The callback of this.pipes.forEach for the element at index k.
PipeStep(g, k) ==
    LET moved == [g.pipes[k] EXCEPT !.x = @ - g.pipeSpeed]
        passed == PipePassed(moved)
        points == PointsFor(g)
        pipe == [moved EXCEPT !.scored = @ \/ passed]
        g1 == [g EXCEPT !.pipes[k] = pipe]
        g2 == IF passed
              THEN createParticles(
                       [g1 EXCEPT !.score = @ + points,
                                  !.ev.points = @ + points,
                                  !.ev.scoredIds = @ \cup {pipe.id}])
              ELSE g1
        g3 == IF pipe.x + PipeWidth < 0
              THEN [g2 EXCEPT !.pipes = Splice(@, k),
                              !.ev.removedIds = @ \cup {pipe.id},
                              !.ev.removedUnscored =
                                  IF pipe.scored THEN @ ELSE @ \cup {pipe.id}]
              ELSE g2
    IN  IF checkPipeCollision(g3, pipe)
        THEN gameOver([g3 EXCEPT !.ev.pipeHits = @ + 1])
        ELSE g3

\* forEach visits the indices below the length the array had when the call began,
\* and skips an index the array no longer has.
RECURSIVE PipesForEach(_, _, _)
PipesForEach(g, k, len) ==
    IF k > len \/ k > Len(g.pipes) THEN g
    ELSE PipesForEach(PipeStep(g, k), k + 1, len)

\* The place without the gap height in the range of the draw.
PipeYIgnoringGap(g, r) ==
    ((r * (g.groundY - 2 * PipeMargin)) \div RandDen) + PipeMargin

\* The top of the gap of a new obstacle for the value r of Math.random().
PipeY(g, r) ==
    ((r * (g.groundY - g.pipeGap - 2 * PipeMargin)) \div RandDen) + PipeMargin

\* updatePipes() without its test of the game state.
updatePipesInAnyState(g, r) ==
    LET n == Len(g.pipes)
        due == n = 0 \/ g.pipes[n].x < g.canvas.width - PipeSpacing
        pipeY == PipeY(g, r)
        g1 == IF due
              THEN [g EXCEPT !.pipes = Append(@, [x |-> g.canvas.width,
                                                  y |-> pipeY,
                                                  scored |-> FALSE,
                                                  id |-> g.nextId]),
                             !.nextId = @ + 1,
                             !.ev.spawnedPipe = TRUE]
              ELSE g
    IN  PipesForEach(g1, 1, Len(g1.pipes))

\* updatePipes() adding an obstacle only to an empty list.
updatePipesSpawningWhenEmpty(g, r) ==
    IF g.gameState # "playing" THEN g
    ELSE
    LET pipeY == PipeY(g, r)
        g1 == IF Len(g.pipes) = 0
              THEN [g EXCEPT !.pipes = Append(@, [x |-> g.canvas.width,
                                                  y |-> pipeY,
                                                  scored |-> FALSE,
                                                  id |-> g.nextId]),
                             !.nextId = @ + 1,
                             !.ev.spawnedPipe = TRUE]
              ELSE g
    IN  PipesForEach(g1, 1, Len(g1.pipes))

\* r is the value of Math.random() for the new obstacle's place.
updatePipes(g, r) ==
    IF g.gameState # "playing" THEN g
    ELSE
    LET n == Len(g.pipes)
        due == n = 0 \/ g.pipes[n].x < g.canvas.width - PipeSpacing
        pipeY == PipeY(g, r)
        g1 == IF due
              THEN [g EXCEPT !.pipes = Append(@, [x |-> g.canvas.width,
                                                  y |-> pipeY,
                                                  scored |-> FALSE,
                                                  id |-> g.nextId]),
                             !.nextId = @ + 1,
                             !.ev.spawnedPipe = TRUE]
              ELSE g
    IN  PipesForEach(g1, 1, Len(g1.pipes))

\* Math.random() < 0.002 for the draw r.
SpawnChance(r) == r * 1000 < 2 * RandDen

\* The field id is the identity of the pushed object: the number of the spawn
\* draw that created it.
createPowerUp(g, x, y, r) ==
    LET type == PowerUpTypes[((r * Len(PowerUpTypes)) \div RandDen) + 1]
    IN  [g EXCEPT !.powerUps = Append(@, [x |-> x, y |-> y, type |-> type,
                                          duration |-> PowerUpDuration,
                                          collected |-> FALSE,
                                          id |-> g.spawnDraws])]

\* The callback of this.powerUps.forEach without the test of the collected
\* flag.
PowerUpStepCollectingAgain(g, k) ==
    LET moved == [g.powerUps[k] EXCEPT !.x = @ - g.pipeSpeed]
        taken == /\ BirdX < moved.x + PowerUpSize
                 /\ BirdX + BirdWidth > moved.x
                 /\ g.bird.y < moved.y + PowerUpSize
                 /\ g.bird.y + BirdHeight > moved.y
        powerUp == [moved EXCEPT !.collected = @ \/ taken]
        g1 == [g EXCEPT !.powerUps[k] = powerUp]
        g2 == IF taken
              THEN createParticles(
                       [g1 EXCEPT !.activePowerUps = @ \cup {powerUp.type},
                                  !.ev.collected = @ \cup {powerUp.type}])
              ELSE g1
    IN  IF powerUp.x + PowerUpSize < 0
        THEN [g2 EXCEPT !.powerUps = Splice(@, k)]
        ELSE g2

\* The callback of this.powerUps.forEach without the removal of an off-screen
\* power-up.
PowerUpStepWithoutRemoval(g, k) ==
    LET moved == [g.powerUps[k] EXCEPT !.x = @ - g.pipeSpeed]
        taken == /\ ~moved.collected
                 /\ BirdX < moved.x + PowerUpSize
                 /\ BirdX + BirdWidth > moved.x
                 /\ g.bird.y < moved.y + PowerUpSize
                 /\ g.bird.y + BirdHeight > moved.y
        powerUp == [moved EXCEPT !.collected = @ \/ taken]
        g1 == [g EXCEPT !.powerUps[k] = powerUp]
    IN  IF taken
        THEN createParticles(
                 [g1 EXCEPT !.activePowerUps = @ \cup {powerUp.type},
                            !.ev.collected = @ \cup {powerUp.type}])
        ELSE g1

\* The callback of this.powerUps.forEach for the element at index k.
PowerUpStep(g, k) ==
    LET moved == [g.powerUps[k] EXCEPT !.x = @ - g.pipeSpeed]
        taken == /\ ~moved.collected
                 /\ BirdX < moved.x + PowerUpSize
                 /\ BirdX + BirdWidth > moved.x
                 /\ g.bird.y < moved.y + PowerUpSize
                 /\ g.bird.y + BirdHeight > moved.y
        powerUp == [moved EXCEPT !.collected = @ \/ taken]
        g1 == [g EXCEPT !.powerUps[k] = powerUp]
        g2 == IF taken
              THEN createParticles(
                       [g1 EXCEPT !.activePowerUps = @ \cup {powerUp.type},
                                  !.ev.collected = @ \cup {powerUp.type}])
              ELSE g1
    IN  IF powerUp.x + PowerUpSize < 0
        THEN [g2 EXCEPT !.powerUps = Splice(@, k)]
        ELSE g2

RECURSIVE PowerUpsForEach(_, _, _)
PowerUpsForEach(g, k, len) ==
    IF k > len \/ k > Len(g.powerUps) THEN g
    ELSE PowerUpsForEach(PowerUpStep(g, k), k + 1, len)

\* updatePowerUps() without its test of the game state.
updatePowerUpsInAnyState(g, rs, rt) ==
    LET g1 == PowerUpsForEach(g, 1, Len(g.powerUps))
        g2 == [g1 EXCEPT !.spawnDraws = Min(@ + 1, SpawnWindow)]
        n == Len(g2.pipes)
    IN  IF SpawnChance(rs) /\ n > 0
        THEN createPowerUp(g2, g2.pipes[n].x + PowerUpAhead,
                           g2.pipes[n].y + (g2.pipeGap \div 2), rt)
        ELSE g2

\* rs is the value of Math.random() compared with the spawn chance, rt the one
\* createPowerUp draws the type with.
updatePowerUps(g, rs, rt) ==
    IF g.gameState # "playing" THEN g
    ELSE
    LET g1 == PowerUpsForEach(g, 1, Len(g.powerUps))
        g2 == [g1 EXCEPT !.spawnDraws = Min(@ + 1, SpawnWindow)]
        n == Len(g2.pipes)
    IN  IF SpawnChance(rs) /\ n > 0
        THEN createPowerUp(g2, g2.pipes[n].x + PowerUpAhead,
                           g2.pipes[n].y + (g2.pipeGap \div 2), rt)
        ELSE g2

\* The callback of this.particles.forEach for the element at index k.
ParticleStep(g, k) ==
    LET life == g.particles[k] - 1
    IN  IF life <= 0
        THEN [g EXCEPT !.particles = Splice(@, k)]
        ELSE [g EXCEPT !.particles[k] = life]

RECURSIVE ParticlesForEach(_, _, _)
ParticlesForEach(g, k, len) ==
    IF k > len \/ k > Len(g.particles) THEN g
    ELSE ParticlesForEach(ParticleStep(g, k), k + 1, len)

updateParticles(g) == ParticlesForEach(g, 1, Len(g.particles))

update(g, rp, rs, rt) ==
    updateDifficulty(
        updateParticles(
            updatePowerUps(
                updatePipes(
                    updateBird(g), rp), rs, rt)))

gameLoop(g, rp, rs, rt) ==
    requestAnimationFrame(
        IF g.gameState # "paused" THEN update(g, rp, rs, rt) ELSE g)

----------------------------------------------------------------------------
(* The state after the constructor, whose own gameLoop() call finds the     *)
(* state 'start' and nothing to move.                                       *)

Init ==
    /\ canvas \in CanvasSizes
    /\ groundY = canvas.height - GroundOffset
    /\ stored \in StoredValues
    /\ bestScore = OrZero(stored)
    /\ gameState = "start"
    /\ isPaused = FALSE
    /\ score = 0
    /\ difficulty = 1
    /\ pipeSpeed = InitPipeSpeed
    /\ pipeGap = InitPipeGap
    /\ bird = [y |-> StartY, velocity |-> 0, rotation |-> 0]
    /\ pipes = << >>
    /\ powerUps = << >>
    /\ activePowerUps = {}
    /\ particles = << >>
    /\ globalScore = 0
    /\ isAlive = "undefined"
    /\ nextId = 0
    /\ spawnDraws = 0
    /\ runs = 0
    /\ raf = [scheduled |-> 1, running |-> 0, calls |-> 0]
    /\ ev = NoEvent("init")

----------------------------------------------------------------------------
(* The handlers.  The start button is on the start screen and the restart   *)
(* button on the game-over screen, which updateUI shows in those states     *)
(* only.                                                                    *)

StartClick ==
    /\ gameState = "start"
    /\ Commit(startGame(Begin("start")))

RestartClick ==
    /\ gameState = "gameOver"
    /\ runs < MaxRuns
    /\ Commit(restartGame(Begin("restart")))

\* The pause button, the resume button and the Escape key.
PauseToggle == Commit(togglePause(Begin("pause")))

\* The listener without its test of the state.
onFlapInputInAnyState(g) == flap(g)

\* The listeners of the Space key and of a click on the canvas.
onFlapInput(g) == IF g.gameState = "playing" THEN flap(g) ELSE g

\* The Space key and a click on the canvas.
FlapInput ==
    /\ gameState = "playing" => bird.velocity \in FlapVelocities
    /\ Commit(onFlapInput(Begin("flap")))

\* The draws a frame may take in the current state.
PipeDraws ==
    IF pipes = << >> \/ pipes[Len(pipes)].x < canvas.width - PipeSpacing
    THEN IF nextId < PlaceWindow THEN RandomDraws ELSE FitDraws
    ELSE FitDraws

SpawnDraws ==
    IF gameState = "playing" /\ spawnDraws < SpawnWindow
    THEN RandomDraws
    ELSE {r \in RandomDraws : ~SpawnChance(r)}

TypeDraws(rs) == IF SpawnChance(rs) THEN RandomDraws ELSE {0}

\* One animation frame.
Frame ==
    /\ gameState = "playing" =>
           score < (IF runs <= 1 THEN MaxScore ELSE MaxLaterScore)
    /\ \E rp \in PipeDraws, rs \in SpawnDraws :
           \E rt \in TypeDraws(rs) :
               Commit(gameLoop(BeginFrame, rp, rs, rt))

Next ==
    \/ StartClick
    \/ RestartClick
    \/ PauseToggle
    \/ FlapInput
    \/ Frame

Spec == Init /\ [][Next]_vars

----------------------------------------------------------------------------
(* The commands in every state.  The listeners and the methods test no      *)
(* visibility: a click event dispatched on a button whose screen is hidden  *)
(* runs its listener, and startGame and restartGame are public methods.     *)
(* Such a command arrives at the instants of FlapVelocities.                *)

\* startGame() invoked while the run is on.
StartCall ==
    /\ gameState \in {"playing", "paused"}
    /\ runs < MaxRuns
    /\ bird.velocity \in FlapVelocities
    /\ Commit(startGame(Begin("startCall")))

\* restartGame() invoked while the run is on.
RestartCall ==
    /\ gameState \in {"playing", "paused"}
    /\ runs < MaxRuns
    /\ bird.velocity \in FlapVelocities
    /\ Commit(restartGame(Begin("restartCall")))

\* A click on the pause button.
PauseClick ==
    /\ bird.velocity \in FlapVelocities
    /\ Commit(togglePause(Begin("pauseBtn")))

\* A click on the resume button.
ResumeClick ==
    /\ bird.velocity \in FlapVelocities
    /\ Commit(togglePause(Begin("resumeBtn")))

NextCommands ==
    \/ Next
    \/ StartCall
    \/ RestartCall
    \/ PauseClick
    \/ ResumeClick

SpecCommands == Init /\ [][NextCommands]_vars

----------------------------------------------------------------------------
(* The score controller alone, for the levels no flight of the model above  *)
(* reaches: of a tick only the points of updatePipes, the end of the run    *)
(* and the closing updateDifficulty() are kept.                             *)

\* The runs are followed up to this score.
ScoreCap == 100

\* A tick whose cleared obstacles award p points.
ScoringTick ==
    /\ gameState = "playing"
    /\ score < ScoreCap
    /\ \E p \in 0..2 :
           Commit(updateDifficulty([Begin("frame") EXCEPT !.score = @ + p,
                                                          !.ev.points = p]))

\* A tick in which the actor hits the ground.
FatalTick ==
    /\ gameState = "playing"
    /\ Commit(updateDifficulty(
                  gameOver([Begin("frame") EXCEPT !.ev.groundHit = TRUE])))

NextScore ==
    \/ StartClick
    \/ RestartClick
    \/ ScoringTick
    \/ FatalTick

SpecScore == Init /\ [][NextScore]_vars

----------------------------------------------------------------------------
(* Other pages: canvases of other heights, and every place for every        *)
(* obstacle.  A run is followed up to the score MaxLaterScore.              *)

\* Heights whose ground level is below the start height (188), just above it
\* (330, where the range of the place is negative), where the range is empty
\* (340) and above (488).
CanvasHeights == {3000, 4420, 4520, 6000}

\* The draws of a place: the ones of RandomDraws and one close to 1.
PlaceDraws == RandomDraws \cup {RandDen - 1}

InitCanvas ==
    /\ canvas \in [width : {4000}, height : CanvasHeights]
    /\ groundY = canvas.height - GroundOffset
    /\ stored = [kind |-> "null", n |-> 0]
    /\ bestScore = OrZero(stored)
    /\ gameState = "start"
    /\ isPaused = FALSE
    /\ score = 0
    /\ difficulty = 1
    /\ pipeSpeed = InitPipeSpeed
    /\ pipeGap = InitPipeGap
    /\ bird = [y |-> StartY, velocity |-> 0, rotation |-> 0]
    /\ pipes = << >>
    /\ powerUps = << >>
    /\ activePowerUps = {}
    /\ particles = << >>
    /\ globalScore = 0
    /\ isAlive = "undefined"
    /\ nextId = 0
    /\ spawnDraws = 0
    /\ runs = 0
    /\ raf = [scheduled |-> 1, running |-> 0, calls |-> 0]
    /\ ev = NoEvent("init")

\* One animation frame with any place for a new obstacle.
FrameAnyPlace ==
    /\ gameState = "playing" => score < MaxLaterScore
    /\ \E rp \in PlaceDraws, rs \in SpawnDraws :
           \E rt \in TypeDraws(rs) :
               Commit(gameLoop(BeginFrame, rp, rs, rt))

NextCanvas ==
    \/ StartClick
    \/ RestartClick
    \/ PauseToggle
    \/ FlapInput
    \/ FrameAnyPlace

SpecCanvas == InitCanvas /\ [][NextCanvas]_vars

-----------------------------------------------------------------------------
(* The flight of the actor before the first obstacle reaches it: flaps at   *)
(* the start of a run, half way up and at the top of a jump, while falling, *)
(* at the ceiling and directly after another flap, which take the actor     *)
(* from y = 300 to the ceiling.                                             *)

\* The velocities at which this specification takes a flap: just flapped,
\* rising, at rest (run start, top of a jump, after the clamp at the ceiling)
\* and falling.  Flaps at 78 (ticks 13 and 46 of a run) bring the actor to
\* the ground in the tick in which the second obstacle is due.
FlightVelocities == {JumpPower, -60, 0, 60, 78}

\* The flap input is taken while fewer than this many particles are alive.
MaxLiveParticles == 20

\* The frames of a run are taken until this many obstacles have been spawned.
MaxFlightPipes == 2

FlightFlap ==
    /\ gameState = "playing" =>
           /\ bird.velocity \in FlightVelocities
           /\ Len(particles) < MaxLiveParticles
    /\ Commit(onFlapInput(Begin("flap")))

FlightFrame ==
    /\ gameState = "playing" => nextId < MaxFlightPipes
    /\ \E rp \in FitDraws, rs \in SpawnDraws :
           \E rt \in TypeDraws(rs) :
               Commit(gameLoop(BeginFrame, rp, rs, rt))

NextFlight ==
    \/ StartClick
    \/ PauseToggle
    \/ FlightFlap
    \/ FlightFrame

InitFlight == Init /\ stored = [kind |-> "null", n |-> 0]

SpecFlight == InitFlight /\ [][NextFlight]_vars

-----------------------------------------------------------------------------
(* The runs to their end.  The frames of a run are not cut off here: the    *)
(* player stops flapping once the score has reached MaxFlapScore, and the   *)
(* frames go on for as long as the run does.  requestAnimationFrame calls   *)
(* gameLoop again and again (every gameLoop schedules the next one), many   *)
(* times between two inputs of the player, so a run that is playing again   *)
(* and again gets its ticks: strong fairness of the playing tick.           *)

\* The player flaps only while the score is below this.
MaxFlapScore == 1

\* No run gets further than this: the actor reaches the ground before a
\* second obstacle after the last flap has passed.
LiveScoreCap == MaxFlapScore + 2

LiveFlap ==
    /\ gameState = "playing" =>
           /\ bird.velocity \in FlapVelocities
           /\ score < MaxFlapScore
    /\ Commit(onFlapInput(Begin("flap")))

LiveFrame ==
    /\ gameState = "playing" => score < LiveScoreCap
    /\ \E rp \in PipeDraws, rs \in SpawnDraws :
           \E rt \in TypeDraws(rs) :
               Commit(gameLoop(BeginFrame, rp, rs, rt))

\* A frame that finds the run playing.
LiveTick == gameState = "playing" /\ LiveFrame

\* LiveTick can be taken: Commit can always be satisfied, and a tick of a run
\* changes the actor.
LiveTickEnabled == gameState = "playing" /\ score < LiveScoreCap

\* Strong fairness of LiveTick, with its enabling condition written out.
LiveTickFairness == []<>LiveTickEnabled => []<><<LiveTick>>_vars

NextLive ==
    \/ StartClick
    \/ RestartClick
    \/ PauseToggle
    \/ LiveFlap
    \/ LiveFrame

SpecLive == InitFlight /\ [][NextLive]_vars /\ LiveTickFairness

----------------------------------------------------------------------------
(* The variant src/script.js.  Its createPowerUp, togglePause, updatePowerUps, *)
(* updateParticles, flap and listeners of the pause and flap inputs are those  *)
(* of the clean variant.  The score is a number with a fractional part here:   *)
(* in the specification of this variant score, globalScore and bestScore are   *)
(* in tenths of a point, added exactly (the model's runs are too short for     *)
(* the rounding of the sums of 0.1 to matter).                                 *)

\* The runs of this variant are followed until MaxScriptPipes obstacles have
\* been spawned.
MaxScriptPipes == 4

\* initializeClouds(), of which only the assignment to globalScore is kept.
initializeClouds(g) == [g EXCEPT !.globalScore = -10]

script_gameOver(g) == gameOver([g EXCEPT !.isAlive = "false"])

script_startGame(g) ==
    [g EXCEPT !.gameState = "playing",
              !.globalScore = 0,
              !.score = 0,
              !.bird.y = StartY,
              !.bird.velocity = 0,
              !.pipes = << >>,
              !.nextId = 0,
              !.runs = @ + 1,
              !.ev.started = TRUE]

script_restartGame(g) ==
    initializeClouds(
        [g EXCEPT !.gameState = "playing",
                  !.globalScore = 0,
                  !.score = 0,
                  !.bird.y = StartY,
                  !.bird.velocity = 0,
                  !.pipes = << >>,
                  !.isAlive = "true",
                  !.nextId = 0,
                  !.runs = @ + 1,
                  !.ev.started = TRUE])

\* this.score = globalScore, and the speed grows when the score is a positive
\* multiple of 5.
script_updateScore(g) ==
    LET g1 == [g EXCEPT !.score = g.globalScore]
    IN  IF g1.score % 50 = 0 /\ g1.score > 0
        THEN [g1 EXCEPT !.pipeSpeed = @ + 1]
        ELSE g1

script_updateDifficulty(g) ==
    LET newDifficulty == (g.score \div 100) + 1
    IN  IF newDifficulty > g.difficulty
        THEN [g EXCEPT !.difficulty = newDifficulty,
                       !.pipeSpeed = Min(20 + newDifficulty * 5, 50),
                       !.pipeGap = Max(1400 - newDifficulty * 50, 1000)]
        ELSE g

script_updateBird(g) ==
    IF g.gameState # "playing" \/ g.isAlive = "false" THEN g
    ELSE
    LET v == g.bird.velocity + Gravity
        y == g.bird.y + v
        g1 == [g EXCEPT !.bird = [y |-> y, velocity |-> v,
                                  rotation |-> Min(Max(v * 3, -300), 900)]]
        g2 == IF GroundCollision(g1)
              THEN script_gameOver([g1 EXCEPT !.globalScore = -9990,
                                              !.isAlive = "false",
                                              !.ev.groundHit = TRUE])
              ELSE g1
    IN  IF g2.bird.y < 0
        THEN [g2 EXCEPT !.bird.y = 0, !.bird.velocity = 0]
        ELSE g2

\* The callback of this.pipes.forEach for the element at index k.
script_PipeStep(g, k) ==
    LET moved == [g.pipes[k] EXCEPT !.x = @ - g.pipeSpeed]
        passed == PipePassed(moved)
        points == PointsFor(g)
        pipe == [moved EXCEPT !.scored = @ \/ passed]
        g1 == [g EXCEPT !.pipes[k] = pipe]
        g2 == IF passed
              THEN script_updateScore(createParticles(
                       [g1 EXCEPT !.score = @ + 10 * points,
                                  !.ev.points = @ + points,
                                  !.ev.scoredIds = @ \cup {pipe.id}]))
              ELSE g1
        g3 == IF pipe.x + PipeWidth < 0
              THEN [g2 EXCEPT !.pipes = Splice(@, k),
                              !.ev.removedIds = @ \cup {pipe.id},
                              !.ev.removedUnscored =
                                  IF pipe.scored THEN @ ELSE @ \cup {pipe.id}]
              ELSE g2
    IN  IF checkPipeCollision(g3, pipe)
        THEN script_gameOver([g3 EXCEPT !.isAlive = "false",
                                        !.ev.pipeHits = @ + 1])
        ELSE g3

RECURSIVE script_PipesForEach(_, _, _)
script_PipesForEach(g, k, len) ==
    IF k > len \/ k > Len(g.pipes) THEN g
    ELSE script_PipesForEach(script_PipeStep(g, k), k + 1, len)

\* A new obstacle adds 0.1 to globalScore.
script_updatePipes(g, r) ==
    IF g.gameState # "playing" THEN g
    ELSE
    LET n == Len(g.pipes)
        due == n = 0 \/ g.pipes[n].x < g.canvas.width - PipeSpacing
        g1 == IF due
              THEN [g EXCEPT !.pipes = Append(@, [x |-> g.canvas.width,
                                                  y |-> PipeY(g, r),
                                                  scored |-> FALSE,
                                                  id |-> g.nextId]),
                             !.globalScore = @ + 1,
                             !.nextId = @ + 1,
                             !.ev.spawnedPipe = TRUE]
              ELSE g
    IN  script_PipesForEach(g1, 1, Len(g1.pipes))

script_update(g, rp, rs, rt) ==
    script_updateDifficulty(
        updateParticles(
            updatePowerUps(
                script_updatePipes(
                    script_updateBird(g), rp), rs, rt)))

script_gameLoop(g, rp, rs, rt) ==
    requestAnimationFrame(
        IF g.gameState # "paused" THEN script_update(g, rp, rs, rt) ELSE g)

\* The state after the constructor: its first gameLoop() finds the state
\* 'start', then initializeClouds() leaves globalScore at -1; each of its two
\* gameLoop() calls has scheduled a callback.
InitScript ==
    /\ canvas \in CanvasSizes
    /\ groundY = canvas.height - GroundOffset
    /\ stored = [kind |-> "null", n |-> 0]
    /\ bestScore = OrZero(stored)
    /\ gameState = "start"
    /\ isPaused = FALSE
    /\ score = 0
    /\ difficulty = 1
    /\ pipeSpeed = InitPipeSpeed
    /\ pipeGap = InitPipeGap
    /\ bird = [y |-> StartY, velocity |-> 0, rotation |-> 0]
    /\ pipes = << >>
    /\ powerUps = << >>
    /\ activePowerUps = {}
    /\ particles = << >>
    /\ globalScore = -10
    /\ isAlive = "undefined"
    /\ nextId = 0
    /\ spawnDraws = 0
    /\ runs = 0
    /\ raf = [scheduled |-> 2, running |-> 0, calls |-> 0]
    /\ ev = NoEvent("init")

\* The listener of the start button: startGame(), then globalScore = this.score.
ScriptStartClick ==
    /\ gameState = "start"
    /\ LET g == script_startGame(Begin("start"))
       IN  Commit([g EXCEPT !.globalScore = g.score])

ScriptRestartClick ==
    /\ gameState = "gameOver"
    /\ runs < MaxRuns
    /\ Commit(script_restartGame(Begin("restart")))

\* One call of gameLoop().
ScriptFrame ==
    /\ gameState = "playing" => nextId < MaxScriptPipes
    /\ \E rp \in PipeDraws, rs \in SpawnDraws :
           \E rt \in TypeDraws(rs) :
               Commit(script_gameLoop(BeginFrame, rp, rs, rt))

NextScript ==
    \/ ScriptStartClick
    \/ ScriptRestartClick
    \/ PauseToggle
    \/ FlapInput
    \/ ScriptFrame

SpecScript == InitScript /\ [][NextScript]_vars

----------------------------------------------------------------------------
(* The claims. *)

\* The obstacle of the state before a step that has the identity token id.
WasScored(id) == \E i \in DOMAIN pipes : pipes[i].id = id /\ pipes[i].scored

\* The obstacles a step has cleared: their right edge is left of the actor's x
\* after the step and they were not scored before it.
ClearedNow ==
    {j \in DOMAIN pipes' :
        pipes'[j].x + PipeWidth < BirdX /\ ~WasScored(pipes'[j].id)}

\* A frame that simulates: frames are skipped while paused, and the methods of
\* update() return at once unless the state is 'playing'.
Tick == ev'.op = "frame" /\ gameState = "playing"

\* C1: after startGame or restartGame has returned the run is in its initial
\* configuration: state playing, bird.y 300, velocity 0, no obstacle, score 0,
\* difficulty 1, obstacle speed 2 and gap height 140.
C1_StartResetsRun ==
    ev.started =>
        /\ gameState = "playing"
        /\ bird.y = StartY
        /\ bird.velocity = 0
        /\ pipes = << >>
        /\ score = 0
        /\ difficulty = 1
        /\ pipeSpeed = InitPipeSpeed
        /\ pipeGap = InitPipeGap

\* C2: at the end of every tick the difficulty is floor(score / 10) + 1, in
\* every run of the instance.
C2_DifficultyFollowsScore ==
    (ev.op = "frame" /\ gameState \in {"playing", "gameOver"}) =>
        difficulty = (score \div 10) + 1

\* C3: the scored flag of an obstacle goes from false to true at most once and
\* never back, and the score grows for an obstacle at most once: by at most two
\* points for each obstacle whose flag the step has set, and by nothing
\* otherwise.
C3_ScoredOnce ==
    [][ ~ev'.started =>
          /\ \A i \in DOMAIN pipes, j \in DOMAIN pipes' :
                 (pipes[i].id = pipes'[j].id /\ pipes[i].scored)
                     => pipes'[j].scored
          /\ LET flagged == {j \in DOMAIN pipes' :
                                pipes'[j].scored /\ ~WasScored(pipes'[j].id)}
             IN  /\ score' - score <= 2 * Cardinality(flagged)
                 /\ score' - score >= Cardinality(flagged)
      ]_vars

C3_Witness ==
    /\ ev.op = "frame"
    /\ gameState = "playing"
    /\ ev.scoredIds = {}
    /\ score = 1
    /\ \E i \in DOMAIN pipes : pipes[i].scored
    /\ \E i \in DOMAIN pipes : ~pipes[i].scored

\* C4: a tick that clears an obstacle adds 1 to the score, or 2 if doublePoints
\* is in the active effect set at that instant; a tick that clears none leaves
\* the score unchanged.
C4_PointsPerClearance ==
    [][ Tick =>
          IF ClearedNow # {}
          THEN score' = score + (IF "doublePoints" \in activePowerUps
                                 THEN 2 ELSE 1)
          ELSE score' = score
      ]_vars

C4_Witness ==
    /\ ev.op = "frame"
    /\ ev.points = 2
    /\ "doublePoints" \in activePowerUps
    /\ score = 3

\* C5: a fatal collision (ground or obstacle) while shield is in the active
\* effect set does not end the run and removes the shield from the set.
C5_ShieldAbsorbsCollision ==
    [][ (Tick /\ "shield" \in activePowerUps
              /\ (ev'.groundHit \/ ev'.pipeHits > 0))
          => (gameState' # "gameOver" /\ "shield" \notin activePowerUps')
      ]_vars

\* C6: every playing tick takes one from the remaining duration of a collected
\* power-up, and an effect whose duration has run out is no longer active.
C6_EffectsExpire ==
    [][ Tick =>
          /\ \A i \in DOMAIN powerUps, j \in DOMAIN powerUps' :
                 ( /\ powerUps[i].collected
                   /\ powerUps'[j].type = powerUps[i].type
                   /\ powerUps'[j].y = powerUps[i].y
                   /\ powerUps'[j].x = powerUps[i].x - pipeSpeed )
                     => powerUps'[j].duration = powerUps[i].duration - 1
          /\ \A j \in DOMAIN powerUps' :
                 (powerUps'[j].collected /\ powerUps'[j].duration <= 0)
                     => powerUps'[j].type \notin activePowerUps'
      ]_vars

\* C7: after a tick that leaves the state playing the actor is not below the
\* ground level; a tick that takes it below ends in gameOver.
C7_AboveGroundWhilePlaying ==
    (ev.op = "frame" /\ gameState \notin {"start", "paused"}
                     /\ bird.y + BirdHeight > groundY)
        => gameState = "gameOver"

C7_Witness ==
    /\ ev.op = "frame"
    /\ ev.groundHit
    /\ gameState = "gameOver"
    /\ bird.y + BirdHeight > groundY

\* C8: no frame, pause toggle or flap input leaves gameOver; only a start or a
\* restart does, and it leads to playing.
C8_GameOverIsTerminal ==
    [][ gameState = "gameOver" =>
          \/ gameState' = "gameOver"
          \/ ev'.started /\ gameState' = "playing"
      ]_vars

C8_Witness ==
    /\ gameState = "gameOver"
    /\ ev.op = "pause"

\* C9: the best score never decreases; it changes, and is written to
\* localStorage, only by a step from playing to gameOver whose final score is
\* greater than the best score before, and it becomes that score.
C9_BestScoreOnlyGrows ==
    [][ (bestScore' # bestScore \/ stored' # stored) =>
          /\ gameState = "playing"
          /\ gameState' = "gameOver"
          /\ bestScore.kind \in {"num", "numstr"}
          /\ score' > bestScore.n
          /\ bestScore' = Num(score')
          /\ stored' = NumStr(score')
      ]_vars

C9_Witness ==
    /\ ev.saved
    /\ runs = 2
    /\ gameState = "gameOver"
    /\ bestScore = Num(score)
    /\ stored = NumStr(score)

\* C10: with no stored best score, or one that is not a number, the first run
\* that ends with a score above 0 sets the best score to that score.
C10_MalformedBestIsZero ==
    [][ ( /\ runs = 1
          /\ stored.kind \in {"null", "empty", "nan"}
          /\ gameState = "playing"
          /\ gameState' = "gameOver"
          /\ score' > 0 )
          => bestScore' = Num(score')
      ]_vars

\* The fields of the simulation: everything but the notifications of the last
\* handler.
sim == << canvas, groundY, stored, gameState, isPaused, score, bestScore,
          difficulty, pipeSpeed, pipeGap, bird, pipes, powerUps,
          activePowerUps, particles, globalScore, isAlive >>

\* C11: a flap input (Space key or canvas click) while the state is start,
\* paused or gameOver changes nothing: the actor's velocity and position stay,
\* and no particle and no trail entry is emitted.
C11_FlapIgnoredUnlessPlaying ==
    [][ (ev'.op = "flap" /\ gameState # "playing") =>
          /\ bird' = bird
          /\ particles' = particles
          /\ ev'.trail = 0
          /\ sim' = sim
      ]_vars

C11_Witness ==
    /\ ev.op = "flap"
    /\ gameState = "paused"
    /\ ~ev.flapped
    /\ bird.velocity \in FlapVelocities
    /\ particles # << >>

\* C12: startGame or restartGame invoked while the state is playing or paused
\* is a no-op: the state, the score, the actor and the obstacle list stay.
C12_StartIgnoredWhileRunning ==
    [][ (ev'.op \in {"startCall", "restartCall"}) =>
          /\ gameState' = gameState
          /\ score' = score
          /\ bird' = bird
          /\ pipes' = pipes
      ]_vars

\* C13: a click on the pause button while paused leaves the state paused, and
\* a click on the resume button while playing leaves the state playing.
C13_PauseResumeIdempotent ==
    [][ /\ (ev'.op = "pauseBtn" /\ gameState = "paused")
               => gameState' = "paused"
        /\ (ev'.op = "resumeBtn" /\ gameState = "playing")
               => gameState' = "playing"
      ]_vars

\* C14: a frame processed while the state is paused or gameOver changes neither
\* the actor's position and velocity, nor the obstacle list, the power-up list,
\* the active effect set, the particle list, the score or the difficulty.
C14_NoSimulationUnlessPlaying ==
    [][ (ev'.op = "frame" /\ gameState \in {"paused", "gameOver"}) =>
          /\ bird' = bird
          /\ pipes' = pipes
          /\ powerUps' = powerUps
          /\ activePowerUps' = activePowerUps
          /\ particles' = particles
          /\ score' = score
          /\ difficulty' = difficulty
      ]_vars

\* The instance a page load constructs now, on the same canvas and storage.
NewGame ==
    [This EXCEPT !.bestScore = OrZero(stored),
                 !.gameState = "start",
                 !.isPaused = FALSE,
                 !.score = 0,
                 !.difficulty = 1,
                 !.pipeSpeed = InitPipeSpeed,
                 !.pipeGap = InitPipeGap,
                 !.bird = [y |-> StartY, velocity |-> 0, rotation |-> 0],
                 !.pipes = << >>,
                 !.powerUps = << >>,
                 !.activePowerUps = {},
                 !.particles = << >>,
                 !.ev = NoEvent("start")]

\* C15: two runs that receive the same random draws and the same commands at
\* the same ticks place their obstacles and power-ups alike and score alike,
\* also when one of them is begun by restart on an instance that has played
\* before: the first tick of every run leaves the obstacles, power-ups and score
\* that the same draws give the first tick of the first run of a new instance.
C15_RunsAreDeterministic ==
    [][ \A rp \in RandomDraws, rs \in RandomDraws, rt \in RandomDraws :
          ( /\ ev.started
            /\ ev'.op = "frame"
            /\ Commit(gameLoop(BeginFrame, rp, rs, rt)) )
          => LET first == gameLoop(startGame(NewGame), rp, rs, rt)
             IN  /\ pipes' = first.pipes
                 /\ powerUps' = first.powerUps
                 /\ score' = first.score
      ]_vars

\* The actor b overlaps the horizontal span of the obstacle p and is not
\* contained in its gap of height gap.
Fatal(p, b, gap) ==
    /\ BirdX < p.x + PipeWidth
    /\ BirdX + BirdWidth > p.x
    /\ (b.y < p.y \/ b.y + BirdHeight > p.y + gap)

\* C16: on every playing tick, an obstacle of the list whose span the actor
\* overlaps after the move without being inside the gap ends the tick in
\* gameOver, and a tick ends in gameOver by an obstacle in no other case: the
\* state after a playing tick is gameOver exactly if there is such an obstacle
\* or the actor is below the ground level.
C16_CollisionRule ==
    [][ Tick =>
          LET hit == \E j \in DOMAIN pipes' : Fatal(pipes'[j], bird', pipeGap)
              ground == bird'.y + BirdHeight > groundY
          IN  /\ hit => gameState' = "gameOver"
              /\ gameState' = "gameOver" => (hit \/ ground)
              /\ ev'.pipeHits > 0 => hit
      ]_vars

C16_Witness ==
    /\ ev.op = "frame"
    /\ gameState = "gameOver"
    /\ ev.pipeHits > 0
    /\ ~ev.groundHit
    /\ \E j \in DOMAIN pipes :
           /\ Fatal(pipes[j], bird, pipeGap)
           /\ bird.y >= pipes[j].y

\* C17: the gap of every obstacle of the list lies inside the playable band,
\* for every draw and every ground level: its top is not above the ceiling and,
\* with the current gap height, its bottom not below the ground level.
C17_GapInsideBand ==
    \A i \in DOMAIN pipes :
        /\ pipes[i].y >= 0
        /\ pipes[i].y + pipeGap <= groundY

\* An obstacle on a page whose ground level leaves no room for the two margins.
C17_Witness ==
    /\ pipes # << >>
    /\ groundY - pipeGap - 2 * PipeMargin < 0
    /\ pipes[1].y < PipeMargin

\* C18: the obstacle speed is at most 5 and the gap height at least 100 in
\* every state, and no step lowers the speed or raises the gap height.
C18_SpeedAndGapClamped ==
    [][ /\ pipeSpeed <= 50 /\ pipeSpeed' <= 50
        /\ pipeGap >= 1000 /\ pipeGap' >= 1000
        /\ pipeSpeed' >= pipeSpeed
        /\ pipeGap' <= pipeGap
      ]_vars

\* Both clamps bind: level 9 would give the speed 6.5 and the gap height 95.
C18_Witness ==
    /\ difficulty = 9
    /\ pipeSpeed = 50
    /\ pipeGap = 1000

C21_AllObstaclesMove ==
    [][ (Tick /\ ~ev'.groundHit) =>
          \A i \in DOMAIN pipes, j \in DOMAIN pipes' :
              pipes[i].id = pipes'[j].id
                  => pipes'[j].x = pipes[i].x - pipeSpeed
      ]_vars

\* C22 as stated: in every reachable state, at every level from 1 upward, the
\* obstacle speed is min(2 + 0.5 * difficulty, 5) and the gap height is
\* max(140 - 5 * difficulty, 100).
C22_FormulasAtEveryLevel ==
    /\ difficulty >= 1
    /\ pipeSpeed = Min(20 + 5 * difficulty, 50)
    /\ pipeGap = Max(1400 - 50 * difficulty, 1000)

\* C22 amended: the obstacle speed and the gap height are a function of the
\* level alone; from level 2 upward they are the clamped formulas of
\* updateDifficulty, and at level 1 they are the constructor's 2 and 140.
C22_SpeedAndGapFollowLevel ==
    /\ difficulty >= 1
    /\ IF difficulty = 1
       THEN pipeSpeed = InitPipeSpeed /\ pipeGap = InitPipeGap
       ELSE /\ pipeSpeed = Min(20 + 5 * difficulty, 50)
            /\ pipeGap = Max(1400 - 50 * difficulty, 1000)

\* A run at level 3 after a restart at that level: the speed and the gap are
\* those of the formulas, not those of the constructor.
C22_Witness ==
    /\ gameState = "playing"
    /\ runs = 2
    /\ score < 10
    /\ difficulty = 3
    /\ pipeSpeed = 35
    /\ pipeGap = 1250

\* C23: between a start or restart and the next one, no tick lowers the
\* difficulty level.
C23_DifficultyNeverFalls ==
    [][ ev'.op = "frame" => difficulty' >= difficulty ]_vars

\* The tick of a second run that raises the level above the one the run
\* began with.
C23_Witness ==
    /\ ev.op = "frame"
    /\ gameState = "playing"
    /\ runs = 2
    /\ difficulty = 3
    /\ score \in 20..21

\* C24: a tick with a fatal collision (the ground in updateBird or an
\* obstacle in updatePipes) moves, collects and spawns no power-up, and a tick
\* with a ground collision moves and scores no obstacle.
C24_FatalTickSkipsLaterSteps ==
    [][ Tick =>
          /\ (ev'.groundHit \/ ev'.pipeHits > 0) =>
                 /\ powerUps' = powerUps
                 /\ activePowerUps' = activePowerUps
                 /\ ev'.collected = {}
          /\ ev'.groundHit =>
                 /\ pipes' = pipes
                 /\ score' = score
                 /\ ev'.scoredIds = {}
                 /\ ~ev'.spawnedPipe
      ]_vars

\* The state after a tick in which the actor hit the ground while obstacles
\* and a power-up were on the screen.
C24_Witness ==
    /\ ev.op = "frame"
    /\ ev.groundHit
    /\ gameState = "gameOver"
    /\ pipes # << >>
    /\ powerUps # << >>

\* C25: a flap accepted while playing sets the velocity to the fixed impulse
\* whatever it was before, so that a flap that directly follows another flap
\* leaves the velocity as the first one left it.
C25_FlapSetsImpulse ==
    [][ (ev'.op = "flap" /\ gameState = "playing") =>
          /\ ev'.flapped
          /\ bird'.velocity = JumpPower
          /\ (ev.op = "flap" /\ ev.flapped) => bird'.velocity = bird.velocity
      ]_vars

\* The state after two flaps of a run with no tick in between: two batches of
\* particles that have not been updated yet.
C25_Witness ==
    /\ ev.op = "flap"
    /\ ev.flapped
    /\ gameState = "playing"
    /\ bird.velocity = JumpPower
    /\ bird.y < StartY
    /\ Len(particles) >= 2 * ParticleBatch
    /\ \A i \in 1..(2 * ParticleBatch) :
           particles[Len(particles) + 1 - i] = ParticleLife

\* C26: the actor is never above the ceiling at the end of a step, and a
\* playing tick that would move it above the ceiling leaves it at y = 0 with
\* velocity 0 and is no ground collision.
C26_CeilingClamp ==
    [][ /\ bird'.y >= 0
        /\ (Tick /\ bird.y + bird.velocity + Gravity < 0) =>
              /\ bird'.y = 0
              /\ bird'.velocity = 0
              /\ ~ev'.groundHit
              /\ (gameState' = "playing" \/ ev'.pipeHits > 0)
      ]_vars

\* The state after a tick that stopped the actor at the ceiling: it is at
\* rest at y = 0 with the rotation of the upward velocity it had.
C26_Witness ==
    /\ ev.op = "frame"
    /\ gameState = "playing"
    /\ bird.y = 0
    /\ bird.velocity = 0
    /\ bird.rotation < 0

\* C27: at the end of every playing tick no obstacle with x + pipeWidth < 0
\* is in the obstacle list and no power-up with x + 20 < 0 is in the power-up
\* list.
C27_NothingOffScreenRemains ==
    [][ Tick =>
          /\ \A i \in DOMAIN pipes' : pipes'[i].x + PipeWidth >= 0
          /\ \A i \in DOMAIN powerUps' : powerUps'[i].x + PowerUpSize >= 0
      ]_vars

\* The state after a tick that removed an obstacle, in a game whose collected
\* power-up has left the screen and the list before.
C27_Witness ==
    /\ ev.op = "frame"
    /\ gameState = "playing"
    /\ ev.removedIds # {}
    /\ pipes # << >>
    /\ activePowerUps # {}
    /\ powerUps = << >>

\* The test of updatePipes for a new obstacle, on the state before a tick.
SpawnDue ==
    \/ pipes = << >>
    \/ pipes[Len(pipes)].x < canvas.width - PipeSpacing

\* What a tick that runs the spawn rule does: it appends one obstacle exactly
\* when the rule asks for it, created at the canvas width (and moved once in
\* the same tick) and not scored, and it leaves the list non-empty.
SpawnRuleApplied ==
    /\ ev'.spawnedPipe <=> SpawnDue
    /\ nextId' = IF ev'.spawnedPipe THEN nextId + 1 ELSE nextId
    /\ ev'.spawnedPipe =>
           \E j \in DOMAIN pipes' :
               /\ pipes'[j].id = nextId
               /\ pipes'[j].x = canvas.width - pipeSpeed
               /\ ~pipes'[j].scored
    /\ pipes' # << >>

\* C28 as stated: on every playing tick an obstacle is appended exactly when
\* the list is empty or the last obstacle has x < canvas width - 200, at
\* x = canvas width and not scored, at most one per tick, and the list is
\* non-empty at the end of the tick.
C28_SpawnOnEveryTick ==
    [][ Tick => SpawnRuleApplied ]_vars

\* C28 amended: the same on every playing tick in which the actor does not
\* hit the ground; a tick with a ground collision appends no obstacle and
\* leaves the list as it was, empty or not.
C28_SpawnUnlessGroundHit ==
    [][ Tick => IF ev'.groundHit
                THEN ~ev'.spawnedPipe /\ pipes' = pipes /\ nextId' = nextId
                ELSE SpawnRuleApplied ]_vars

\* The state after a tick that appended an obstacle behind another one.
C28_Witness ==
    /\ ev.op = "frame"
    /\ ev.spawnedPipe
    /\ ~ev.groundHit
    /\ gameState = "playing"
    /\ Len(pipes) = 2
    /\ pipes[1].x < canvas.width - PipeSpacing
    /\ pipes[2].x = canvas.width - pipeSpeed
    /\ ~pipes[2].scored

\* The power-up with the identity id is in the list and its flag is c.
PowerUpFlag(list, id, c) ==
    \E i \in DOMAIN list : list[i].id = id /\ list[i].collected = c

\* The kinds of the power-ups whose flag a step turns from false to true.
NewlyCollected ==
    {powerUps[i].type : i \in {k \in DOMAIN powerUps :
        PowerUpFlag(powerUps', powerUps[k].id, TRUE) /\ ~powerUps[k].collected}}

\* C29: the collected flag of a power-up goes from false to true and never
\* back, a new power-up is not collected, and the kinds added to the active
\* effect set and notified as picked up in a step are those of the power-ups
\* whose flag the step turns from false to true.
C29_CollectedOnce ==
    [][ /\ \A i \in DOMAIN powerUps :
               powerUps[i].collected
                   => ~PowerUpFlag(powerUps', powerUps[i].id, FALSE)
        /\ ev'.collected = NewlyCollected
        /\ activePowerUps' = activePowerUps \cup NewlyCollected
      ]_vars

\* The state after a tick that picked nothing up although the actor overlaps
\* a power-up: the power-up was collected in an earlier tick.
C29_Witness ==
    /\ ev.op = "frame"
    /\ gameState = "playing"
    /\ ev.collected = {}
    /\ \E i \in DOMAIN powerUps :
           /\ powerUps[i].collected
           /\ BirdX < powerUps[i].x + PowerUpSize
           /\ BirdX + BirdWidth > powerUps[i].x
           /\ bird.y < powerUps[i].y + PowerUpSize
           /\ bird.y + BirdHeight > powerUps[i].y

\* C30: a frame that updates the particle system and emits no particle lowers
\* the remaining life of every particle in the list by exactly 1 and removes
\* those that reach 0, so that a particle emitted with life 30 is in the list
\* for exactly 30 updates.
C30_EveryParticleAges ==
    [][ ( /\ ev'.op = "frame"
          /\ gameState # "paused"
          /\ ev'.scoredIds = {}
          /\ ev'.collected = {} ) =>
          LET aged == [i \in DOMAIN particles |-> particles[i] - 1]
          IN  particles' = SelectSeq(aged, LAMBDA life : life > 0)
      ]_vars

C32_PausedFlagAgrees ==
    isPaused <=> gameState = "paused"

\* C33: when startGame or restartGame has returned, the active effect set
\* and the power-up list are empty, so that no effect and no power-up of an
\* earlier run reaches the new one (and a run that collects no doublePoints
\* power-up is awarded 1 point per cleared obstacle by the rule of C4).
C33_RunStartsWithoutEffects ==
    ev.started =>
        /\ activePowerUps = {}
        /\ powerUps = << >>

\* C34: whenever the state is gameOver and the best score is a number (or a
\* string that converts to one), the best score is at least the score: the
\* score does not grow after gameOver() has compared the two.
C34_BestCoversFinalScore ==
    (gameState = "gameOver" /\ bestScore.kind \in {"num", "numstr"}) =>
        bestScore.n >= score

\* The state after a tick in which an obstacle ended a run whose score is
\* above every best score stored before.
C34_Witness ==
    /\ ev.op = "frame"
    /\ ev.pipeHits > 0
    /\ gameState = "gameOver"
    /\ score > 3
    /\ bestScore = Num(score)

\* C35: gameOver() runs at most once in a step, and only in a tick that
\* begins in state playing and ends in state gameOver; as gameOver is left by
\* a start or restart only, it runs once per run: not twice in a tick (ground
\* and obstacle, or two obstacles) and not again on the ticks that follow.
C35_GameOverRunsOnce ==
    [][ /\ ev'.gameOvers <= 1
        /\ ev'.gameOvers = 1 =>
               /\ ev'.op = "frame"
               /\ gameState = "playing"
               /\ gameState' = "gameOver"
               /\ (ev'.groundHit /\ ev'.pipeHits = 0)
                      \/ (~ev'.groundHit /\ ev'.pipeHits = 1)
        /\ (gameState = "playing" /\ gameState' = "gameOver") =>
               ev'.gameOvers = 1
      ]_vars

\* The state after a tick that follows the end of a run on the ground: the
\* actor is still below the ground line and gameOver() has not run again.
C35_Witness ==
    /\ ev.op = "frame"
    /\ ev.gameOvers = 0
    /\ gameState = "gameOver"
    /\ bird.y + BirdHeight > groundY
    /\ pipes # << >>

\* C36: every obstacle that updatePipes removes as off-screen has its scored
\* flag set at the moment it is removed.
C36_RemovedObstaclesAreScored ==
    ev.removedUnscored = {}

\* The state after a tick that removed the first obstacle of a run: the
\* score counts it and two obstacles are left.
C36_Witness ==
    /\ ev.op = "frame"
    /\ ev.removedIds = {0}
    /\ gameState = "playing"
    /\ score >= 1
    /\ Len(pipes) = 2

====
